---------------------------- MODULE Spec2Model ----------------------------
(***************************************************************************)
(* rtfsig: the RtfAnalyser construction pipeline (rtfsig/core.py), the     *)
(* console program's use of it (rtfsig/app.py) and the Yara rule generator *)
(* (rtfsig/yara.py).                                                       *)
(*                                                                         *)
(* Bytes and characters are their code points (integers); a byte string    *)
(* and a text string are sequences of code points.  The regular            *)
(* expressions of core.py are translated pattern by pattern into           *)
(* operators that compute, for a start position, the end of the match the  *)
(* backtracking engine finds there.                                        *)
(***************************************************************************)
EXTENDS Integers, Sequences, FiniteSets, TLC

(***************************************************************************)
(* Characters.                                                             *)
(***************************************************************************)

\* The printable ASCII characters in code point order, 32 (space) .. 126 (~);
\* the grave accent (96) is spelled out.
ASCII ==
    << " ", "!", "\"", "#", "$", "%", "&", "'", "(", ")", "*", "+", ",", "-",
       ".", "/", "0", "1", "2", "3", "4", "5", "6", "7", "8", "9", ":", ";",
       "<", "=", ">", "?", "@", "A", "B", "C", "D", "E", "F", "G", "H", "I",
       "J", "K", "L", "M", "N", "O", "P", "Q", "R", "S", "T", "U", "V", "W",
       "X", "Y", "Z", "[", "\\", "]", "^", "_", "GRAVE", "a", "b", "c", "d", "e",
       "f", "g", "h", "i", "j", "k", "l", "m", "n", "o", "p", "q", "r", "s",
       "t", "u", "v", "w", "x", "y", "z", "{", "|", "}", "~" >>

\* ord(c): the code point of a printable character.
ord(c) == 31 + (CHOOSE i \in 1..Len(ASCII) : ASCII[i] = c)

\* A string literal of the source, written as a tuple of its characters.
Str(t) == [i \in 1..Len(t) |-> ord(t[i])]

\* string.printable: digits, letters, punctuation and " \t\n\r\x0b\x0c".
printable == (32..126) \cup (9..13)

\* The regular expression class \s on text: " \t\n\r\f\v" and the
\* separators \x1c..\x1f; str.strip() strips the same characters.
IsSpace == (9..13) \cup (28..32)

\* The class \d on ASCII text.
IsDigit == 48..57

\* The class [a-f0-9].
IsHexLower == (48..57) \cup (97..102)

\* The class [^}] on ASCII text.
NotRBrace == (0..127) \ {125}

(***************************************************************************)
(* String helpers.                                                         *)
(***************************************************************************)

Min(a, b) == IF a < b THEN a ELSE b

\* Python's s[a:b] for 0 <= a <= b (clamped to the length of s).
Slice(s, a, b) == SubSeq(s, a + 1, Min(b, Len(s)))

\* lit (not empty) occurs in t at position p (1-based).
LitAt(t, p, lit) ==
    /\ p >= 1
    /\ p + Len(lit) - 1 <= Len(t)
    /\ t[p] = lit[1]
    /\ SubSeq(t, p, p + Len(lit) - 1) = lit

\* Python's `lit in t` for strings.
Contains(t, lit) == \E p \in 1..Len(t) : LitAt(t, p, lit)

\* A greedy repetition X* of a character class at position p: the position
\* after the longest run of class characters starting at p.
SpanEnd(t, p, cls) ==
    CHOOSE q \in p..(Len(t) + 1) :
        /\ \A k \in p..(q - 1) : t[k] \in cls
        /\ q = Len(t) + 1 \/ t[q] \notin cls

\* str.strip(): leading and trailing whitespace removed.
strip(s) ==
    LET a == SpanEnd(s, 1, IsSpace)
        keep == {k \in a..Len(s) : s[k] \notin IsSpace}
        b == IF keep = {} THEN a - 1 ELSE CHOOSE k \in keep : \A j \in keep : j <= k
    IN  SubSeq(s, a, b)

\* re.finditer: ends[p] is the position after the match that starts at p, or
\* 0 if the pattern does not match at p.  The scan takes the leftmost match,
\* resumes after it, and yields the <<start, end>> pairs in text order.
RECURSIVE finditer(_, _, _)
finditer(ends, p, n) ==
    IF p > n THEN << >>
    ELSE IF ends[p] # 0 THEN << <<p, ends[p]>> >> \o finditer(ends, ends[p], n)
    ELSE finditer(ends, p + 1, n)

(***************************************************************************)
(* The observation catalogue and the result aggregate.                     *)
(***************************************************************************)

\* The keys of OBSERVATIONS.
OBSERVATIONS == {"OBS001", "OBS002", "OBS003", "OBS004", "OBS005", "OBS006", "OBS007"}

\* _add_observation: append a catalogue id to results["observations"] (an id
\* outside the catalogue raises IndexError and appends nothing; every call site
\* passes a catalogue id).
_add_observation(res, reference) ==
    IF reference \notin OBSERVATIONS THEN res
    ELSE [res EXCEPT !.observations = Append(@, reference)]

\* set.add on results["loose_strings"] / results["strict_strings"].
add_loose(res, s) == [res EXCEPT !.loose_strings = @ \cup {s}]
add_strict(res, s) == [res EXCEPT !.strict_strings = @ \cup {s}]

(***************************************************************************)
(* _find_rsid_tags.                                                        *)
(***************************************************************************)

\* The literal start of the table pattern, \*\rsidtbl.
RsidTblWord == Str(<< "\\", "*", "\\", "r", "s", "i", "d", "t", "b", "l" >>)

\* A table pattern that does not ask for the closing brace: the payload
\* may run to the end of the text.
RsidTblAtUnclosed(t, p) ==
    LET q == p + Len(RsidTblWord)
    IN  IF LitAt(t, p, RsidTblWord) /\ q <= Len(t) /\ t[q] \in IsSpace
        THEN LET r == SpanEnd(t, q + 1, NotRBrace)
             IN  IF r > q + 1 THEN << q + 1, r >> ELSE << >>
        ELSE << >>

\* \\\*\\rsidtbl\s([^}]+)} at position p: <<start of group 1, position of the
\* closing brace>>, or << >> if there is no match at p.  [^}]+ is greedy and
\* must be followed by }, so group 1 is the whole run of non-} characters, which
\* must not be empty and must not run to the end of the text.
RsidTblAt(t, p) ==
    LET lit == RsidTblWord
        q == p + Len(lit)
    IN  IF LitAt(t, p, lit) /\ q <= Len(t) /\ t[q] \in IsSpace
        THEN LET r == SpanEnd(t, q + 1, NotRBrace)
             IN  IF r > q + 1 /\ r <= Len(t) THEN << q + 1, r >> ELSE << >>
        ELSE << >>

\* re.search of the table pattern: the leftmost match, << >> if none.
RsidTblSearch(t) ==
    LET hits == {p \in 1..Len(t) : RsidTblAt(t, p) # << >>}
    IN  IF hits = {} THEN << >>
        ELSE RsidTblAt(t, CHOOSE p \in hits : \A o \in hits : p <= o)

\* \\<word>(\d+) at position p: the position after the digits, 0 if no match.
WordDigitsAt(t, p, word) ==
    LET lit == << 92 >> \o word
        q == p + Len(lit)
        e == SpanEnd(t, q, IsDigit)
    IN  IF LitAt(t, p, lit) /\ q <= Len(t) /\ e > q THEN e ELSE 0

\* All matches of \\<word>(\d+) in t, in text order, as <<word, digits>>.
WordDigitsAll(t, word) ==
    LET ends == [p \in 1..Len(t) |-> WordDigitsAt(t, p, word)]
        ms == finditer(ends, 1, Len(t))
    IN  [k \in 1..Len(ms) |->
            << word, SubSeq(t, ms[k][1] + 1 + Len(word), ms[k][2] - 1) >>]

\* The change marker control words, in the order of the list.
change_markers ==
    << Str(<< "i", "n", "s", "r", "s", "i", "d" >>),
       Str(<< "r", "s", "i", "d", "r", "o", "o", "t" >>),
       Str(<< "d", "e", "l", "r", "s", "i", "d" >>),
       Str(<< "c", "h", "a", "r", "r", "s", "i", "d" >>),
       Str(<< "s", "e", "c", "t", "r", "s", "i", "d" >>),
       Str(<< "p", "a", "r", "a", "r", "s", "i", "d" >>),
       Str(<< "t", "b", "l", "r", "s", "i", "d" >>) >>

\* The nested loops over change_markers and finditer: every marker occurrence
\* of the text as <<control_word, unique_id>>, in the order the loops visit.
RECURSIVE MarkerMatches(_, _)
MarkerMatches(t, m) ==
    IF m > Len(change_markers) THEN << >>
    ELSE WordDigitsAll(t, change_markers[m]) \o MarkerMatches(t, m + 1)

\* A membership test that accepts any id that begins a declared id.
InRevisionsPrefix(unique_id, revisions) ==
    \E k \in 1..Len(revisions) :
        /\ Len(unique_id) <= Len(revisions[k])
        /\ SubSeq(revisions[k], 1, Len(unique_id)) = unique_id

\* `unique_id not in revisions` is list membership of the digit string.
InRevisions(unique_id, revisions) ==
    \E k \in 1..Len(revisions) : revisions[k] = unique_id

\* A marker loop that reports a modified document once: OBS003 is not
\* appended again when it is among the observations already.
RECURSIVE MarkerLoopOnce(_, _, _, _)
MarkerLoopOnce(res, ms, k, revisions) ==
    IF k > Len(ms) THEN res
    ELSE LET control_word == ms[k][1]
             unique_id == ms[k][2]
             seen == \E j \in 1..Len(res.observations) :
                        res.observations[j] = "OBS003"
             r1 == IF ~InRevisions(unique_id, revisions) /\ ~seen
                   THEN _add_observation(res, "OBS003") ELSE res
         IN  MarkerLoopOnce(add_loose(r1, control_word \o unique_id), ms, k + 1,
                            revisions)

\* The body of the marker loop, for the occurrences ms[k..].
RECURSIVE MarkerLoop(_, _, _, _)
MarkerLoop(res, ms, k, revisions) ==
    IF k > Len(ms) THEN res
    ELSE LET control_word == ms[k][1]
             unique_id == ms[k][2]
             r1 == IF ~InRevisions(unique_id, revisions)
                   THEN _add_observation(res, "OBS003") ELSE res
         IN  MarkerLoop(add_loose(r1, control_word \o unique_id), ms, k + 1, revisions)

\* The control word of the table entries, \\rsid(\d+).
RsidWord == Str(<< "r", "s", "i", "d" >>)

\* The payload the revision ids are extracted from.
RevisionSource(raw_data, t) == raw_data

_find_rsid_tags(res, t) ==
    LET match == RsidTblSearch(t)
    IN  IF match = << >> THEN res
        ELSE LET raw_data == strip(SubSeq(t, match[1], match[2] - 1))
                 rsid == RsidWord
                 found == WordDigitsAll(RevisionSource(raw_data, t), rsid)
                 revisions == [k \in 1..Len(found) |-> found[k][2]]
                 whole_tags == {<< 92 >> \o rsid \o found[k][2] : k \in 1..Len(found)}
                 r1 == add_strict(_add_observation(res, "OBS007"), raw_data)
                 r2 == [r1 EXCEPT !.loose_strings = @ \cup whole_tags]
             IN  MarkerLoop(r2, MarkerMatches(t, 1), 1, revisions)

(***************************************************************************)
(* _find_blip_tags.                                                        *)
(***************************************************************************)

BliptagWord == Str(<< "b", "l", "i", "p", "t", "a", "g" >>)
BlipuidWord == Str(<< "b", "l", "i", "p", "u", "i", "d" >>)

\* \\(bliptag-?\d+) at p: the position after the match, 0 if none.
BliptagAt(t, p) ==
    LET lit == << 92 >> \o BliptagWord
        q == p + Len(lit)
        d == IF q <= Len(t) /\ t[q] = 45 THEN q + 1 ELSE q
        e == SpanEnd(t, d, IsDigit)
    IN  IF LitAt(t, p, lit) /\ d <= Len(t) /\ e > d THEN e ELSE 0

\* \\(blipuid\s+([a-f0-9]+)) at p: <<start of unique_id, position after the
\* match>>, << >> if none.
BlipuidAt(t, p) ==
    LET lit == << 92 >> \o BlipuidWord
        q == p + Len(lit)
        w == SpanEnd(t, q, IsSpace)
        e == SpanEnd(t, w, IsHexLower)
    IN  IF LitAt(t, p, lit) /\ q <= Len(t) /\ w > q /\ w <= Len(t) /\ e > w
        THEN << w, e >> ELSE << >>

\* OBS006 raised inside the loop: once for every bliptag match.
_find_blip_tags_per_match(res, t) ==
    LET tagEnds == [p \in 1..Len(t) |-> BliptagAt(t, p)]
        tags == finditer(tagEnds, 1, Len(t))
        r1 == IF Contains(t, BliptagWord)
              THEN [res EXCEPT
                      !.loose_strings =
                          @ \cup {SubSeq(t, tags[k][1] + 1, tags[k][2] - 1) :
                                    k \in 1..Len(tags)},
                      !.observations = @ \o [k \in 1..Len(tags) |-> "OBS006"]]
              ELSE res
        uidEnds == [p \in 1..Len(t) |->
                      IF BlipuidAt(t, p) = << >> THEN 0 ELSE BlipuidAt(t, p)[2]]
        uids == finditer(uidEnds, 1, Len(t))
    IN  IF Contains(t, BlipuidWord)
        THEN [r1 EXCEPT
                !.loose_strings =
                    @ \cup {SubSeq(t, BlipuidAt(t, uids[k][1])[1], uids[k][2] - 1) :
                              k \in 1..Len(uids)},
                !.strict_strings =
                    @ \cup {SubSeq(t, uids[k][1] + 1, uids[k][2] - 1) :
                              k \in 1..Len(uids)}]
        ELSE r1

_find_blip_tags(res, t) ==
    LET tagEnds == [p \in 1..Len(t) |-> BliptagAt(t, p)]
        tags == finditer(tagEnds, 1, Len(t))
        r1 == IF Contains(t, BliptagWord)
              THEN LET r == [res EXCEPT !.loose_strings =
                               @ \cup {SubSeq(t, tags[k][1] + 1, tags[k][2] - 1) :
                                         k \in 1..Len(tags)}]
                   IN  IF Len(tags) = 0 THEN r ELSE _add_observation(r, "OBS006")
              ELSE res
        uidEnds == [p \in 1..Len(t) |->
                      IF BlipuidAt(t, p) = << >> THEN 0 ELSE BlipuidAt(t, p)[2]]
        uids == finditer(uidEnds, 1, Len(t))
    IN  IF Contains(t, BlipuidWord)
        THEN [r1 EXCEPT
                !.loose_strings =
                    @ \cup {SubSeq(t, BlipuidAt(t, uids[k][1])[1], uids[k][2] - 1) :
                              k \in 1..Len(uids)},
                !.strict_strings =
                    @ \cup {SubSeq(t, uids[k][1] + 1, uids[k][2] - 1) :
                              k \in 1..Len(uids)}]
        ELSE r1

(***************************************************************************)
(* _find_image_sizes.                                                      *)
(***************************************************************************)

\* The alternation (?:picw|pich|picwgoal|pichgoal), in its order.
image_tags ==
    << Str(<< "p", "i", "c", "w" >>),
       Str(<< "p", "i", "c", "h" >>),
       Str(<< "p", "i", "c", "w", "g", "o", "a", "l" >>),
       Str(<< "p", "i", "c", "h", "g", "o", "a", "l" >>) >>

\* One iteration \\(?:picw|pich|picwgoal|pichgoal)\d+\s* at p: the position
\* after it, 0 if no alternative leads to a match (the engine tries the
\* alternatives in order and backtracks into the next when \d+ fails).
ImageTagAt(t, p) ==
    LET alts == {k \in 1..Len(image_tags) : WordDigitsAt(t, p, image_tags[k]) # 0}
    IN  IF alts = {} THEN 0
        ELSE LET k == CHOOSE a \in alts : \A b \in alts : a <= b
             IN  SpanEnd(t, WordDigitsAt(t, p, image_tags[k]), IsSpace)

\* A pattern without the repetition: one tag is the whole match.
ImageRunEndOneTag(t, p) ==
    IF ImageTagAt(t, p) = 0 THEN p ELSE ImageTagAt(t, p)

\* The greedy repetition (?: ... )+ from p: the position after the last
\* iteration that matches (p itself if none does).
RECURSIVE ImageRunEnd(_, _)
ImageRunEnd(t, p) ==
    IF ImageTagAt(t, p) = 0 THEN p ELSE ImageRunEnd(t, ImageTagAt(t, p))

\* The matches of the longest_match pattern in t, as <<start, end>>.
ImageRuns(t) ==
    LET ends == [p \in 1..Len(t) |->
                   IF ImageTagAt(t, p) = 0 THEN 0 ELSE ImageRunEnd(t, p)]
    IN  finditer(ends, 1, Len(t))

_find_image_sizes(res, t) ==
    LET ms == ImageRuns(t)
        found == Len(ms)
        r1 == [res EXCEPT !.loose_strings =
                 @ \cup {strip(SubSeq(t, ms[k][1], ms[k][2] - 1)) : k \in 1..found}]
    IN  IF found # 0 THEN _add_observation(r1, "OBS004") ELSE r1

(***************************************************************************)
(* _find_information_group.                                                *)
(***************************************************************************)

info_tags ==
    << Str(<< "t", "i", "t", "l", "e" >>),
       Str(<< "s", "u", "b", "j", "e", "c", "t" >>),
       Str(<< "a", "u", "t", "h", "o", "r" >>),
       Str(<< "m", "a", "n", "a", "g", "e", "r" >>),
       Str(<< "c", "a", "t", "e", "g", "o", "r", "y" >>),
       Str(<< "k", "e", "y", "w", "o", "r", "d", "s" >>),
       Str(<< "o", "p", "e", "r", "a", "t", "o", "r" >>),
       Str(<< "c", "o", "m", "p", "a", "n", "y" >>),
       Str(<< "c", "r", "e", "a", "t", "i", "m" >>),
       Str(<< "r", "e", "v", "t", "i", "m" >>),
       Str(<< "d", "o", "c", "c", "o", "m", "m" >>) >>

\* {\s*\\(?:<tags>)\s+([^}]+)\s*} at p: the position after the closing brace,
\* 0 if no match.  After the tag, \s+ needs one whitespace character and
\* [^}]+ one more character other than }; both may give back to each other, so
\* the match succeeds exactly when the run of non-} characters after the tag
\* starts with whitespace, has two characters or more, and is followed by }.
InfoGroupAt(t, p) ==
    IF p > Len(t) \/ t[p] # 123 THEN 0
    ELSE LET w == SpanEnd(t, p + 1, IsSpace)
             tags == {k \in 1..Len(info_tags) :
                        LitAt(t, w, << 92 >> \o info_tags[k])}
         IN  IF tags = {} THEN 0
             ELSE LET k == CHOOSE a \in tags : \A b \in tags : a <= b
                      q == w + 1 + Len(info_tags[k])
                  IN  IF q <= Len(t) /\ t[q] \in IsSpace
                      THEN LET r == SpanEnd(t, q, NotRBrace)
                           IN  IF r >= q + 2 /\ r <= Len(t) THEN r + 1 ELSE 0
                      ELSE 0

_find_information_group(res, t) ==
    LET ends == [p \in 1..Len(t) |-> InfoGroupAt(t, p)]
        ms == finditer(ends, 1, Len(t))
        found == Len(ms)
        r1 == [res EXCEPT !.loose_strings =
                 @ \cup {SubSeq(t, ms[k][1], ms[k][2] - 1) : k \in 1..found}]
    IN  IF found = 0 THEN r1 ELSE _add_observation(r1, "OBS005")

(***************************************************************************)
(* _parse_data up to the extractors.                                       *)
(***************************************************************************)

\* data.decode("ascii", "ignore"): the bytes above 127 are dropped.
decode(bytes) == SelectSeq(bytes, LAMBDA b : b < 128)

\* The printable check made on the decoded text instead of the bytes.
HasNonPrintableDecoded(bytes) ==
    \E k \in 1..Len(decode(bytes)) : decode(bytes)[k] \notin printable

\* any([chr(x) not in string.printable for x in data])
HasNonPrintable(bytes) == \E k \in 1..Len(bytes) : bytes[k] \notin printable

\* The literals of the two header checks.
Magic == Str(<< "{", "\\", "r", "t" >>)
Version == Str(<< "f", "1" >>)

\* self._data[0:4] != "{\\rt"
BadMagic(t) == Slice(t, 0, 4) # Magic

\* A version check that looks at the fifth character only.
BadVersionFirstChar(t) == Slice(t, 4, 5) # SubSeq(Version, 1, 1)

\* self._data[4:6] != "f1"
BadVersion(t) == Slice(t, 4, 6) # Version

\* The observations _parse_data adds before the extractors run.
CheckPrintable(res, bytes) ==
    IF HasNonPrintable(bytes) THEN _add_observation(res, "OBS001") ELSE res

CheckVersion(res, t) ==
    IF BadVersion(t) THEN _add_observation(res, "OBS002") ELSE res

\* if self._risky_items: self._find_information_group()
AfterImageSizes(risky) == IF risky THEN "_find_information_group" ELSE "return"

(***************************************************************************)
(* The inputs: documents assembled from a header and body fragments.       *)
(***************************************************************************)

\* The longest body, in fragments, of the data a caller of the library passes.
MaxFrags == 2

\* The longest body, in fragments, of the file the console program reads.
MaxFileFrags == 1

\* the minimal document
H_RTF1 ==
    Str(<< "{", "\\", "r", "t", "f", "1", "}" >>)

\* the version marker cut short
H_RTF ==
    Str(<< "{", "\\", "r", "t", "f" >>)

\* the magic alone
H_RT ==
    Str(<< "{", "\\", "r", "t" >>)

\* a byte outside ASCII before the magic
H_HIGH ==
    << 255 >> \o Str(<< "{", "\\", "r", "t", "f", "1", "}" >>)

\* not the magic
H_RXF1 ==
    Str(<< "{", "\\", "r", "x", "f", "1", "}" >>)

\* a revision table that declares the ids 12 and 5
TBL ==
    Str(<< "{", "\\", "*", "\\", "r", "s", "i", "d", "t", "b", "l", " ",
           "\\", "r", "s", "i", "d", "1", "2", "\\", "r", "s", "i", "d",
           "5", "}" >>)

\* a revision table that is not closed (id 7)
TBLOPEN ==
    Str(<< "{", "\\", "*", "\\", "r", "s", "i", "d", "t", "b", "l", " ",
           "\\", "r", "s", "i", "d", "7" >>)

\* a change marker with the id 12
PARARSID12 ==
    Str(<< "\\", "p", "a", "r", "a", "r", "s", "i", "d", "1", "2" >>)

\* a change marker with the id 1
INSRSID1 ==
    Str(<< "\\", "i", "n", "s", "r", "s", "i", "d", "1" >>)

\* two change markers with the id 1
INSDEL1 ==
    Str(<< "\\", "i", "n", "s", "r", "s", "i", "d", "1", "\\", "d", "e", "l",
           "r", "s", "i", "d", "1" >>)

\* four adjacent image size tags, then the picture data
PIC4 ==
    Str(<< "\\", "p", "i", "c", "w", "1", "0", "\\", "p", "i", "c", "h",
           "1", "0", "\\", "p", "i", "c", "w", "g", "o", "a", "l", "1",
           "0", "\\", "p", "i", "c", "h", "g", "o", "a", "l", "1", "0",
           " ", "0", "0", "1", "1", "}" >>)

\* one image size tag followed by a line feed
PIC1 ==
    Str(<< "\\", "p", "i", "c", "h", "2" >>) \o << 10 >>

\* a control byte (not printable, ASCII)
CTRL ==
    << 19 >>

\* a byte outside ASCII
HIGH ==
    << 255 >>

\* an information group
INFO ==
    Str(<< "{", "\\", "a", "u", "t", "h", "o", "r", " ", "x", "}" >>)

\* an image tag
BLIPTAG ==
    Str(<< "\\", "b", "l", "i", "p", "t", "a", "g", "-", "1", "2" >>)

\* an image unique id
BLIPUID ==
    Str(<< "{", "\\", "*", "\\", "b", "l", "i", "p", "u", "i", "d", " ",
           "0", "a", "}" >>)

\* image identifier control words without a value
BLIPBAD ==
    Str(<< "\\", "b", "l", "i", "p", "t", "a", "g", "-", "x", "\\", "b",
           "l", "i", "p", "u", "i", "d", " ", "z", "z" >>)

Headers == << H_RTF1, H_RTF, H_RT, H_HIGH, H_RXF1 >>

Fragments ==
    << TBL, TBLOPEN, PARARSID12, INSRSID1, INSDEL1, PIC4, PIC1, CTRL, HIGH, INFO,
       BLIPTAG, BLIPUID, BLIPBAD >>

\* The concatenation of the fragments a sequence of indices names.
RECURSIVE Concat(_)
Concat(ix) ==
    IF ix = << >> THEN << >> ELSE Fragments[Head(ix)] \o Concat(Tail(ix))

Bodies(max) ==
    {Concat(ix) : ix \in UNION {[1..n -> 1..Len(Fragments)] : n \in 0..max}}

\* The byte strings analysed: the empty one, and each header with each body.
Docs ==
    {<< >>} \cup {Headers[h] \o b : h \in 1..Len(Headers), b \in Bodies(MaxFrags)}

\* The contents of the file on disk.
Files ==
    {<< >>}
        \cup {Headers[h] \o b : h \in 1..Len(Headers), b \in Bodies(MaxFileFrags)}

(***************************************************************************)
(* The state.                                                              *)
(***************************************************************************)

VARIABLES
    caller,        \* "api": a caller of the library; "main": the console program
    args,          \* main: the argparse namespace (rtf_file, exclude_risky)
    disk,          \* the file at the path given: [exists, content]
    filename,      \* the constructor's arguments
    data,
    risky_items,
    pc,            \* the position of the running call
    results,       \* self.results
    _risky_items,  \* self._risky_items
    _data,         \* self._data
    raw,           \* the bytes handed to _parse_data
    exc,           \* the exception that left the constructor, or "none"
    parser,        \* what the caller holds once the constructor has returned
    calls,         \* the methods the constructor has entered, in order
    run,           \* the number of the RtfAnalyser object under construction
    first,         \* the outcome of the first object, once a second is built
    exit_status,   \* main: the argument of sys.exit, or "none"
    rules,         \* main: the names of the rules generated
    name,          \* generate_yara_rule: its arguments
    description,
    strings,
    safe_strings,  \* generate_yara_rule: the list built by the loop
    rule_text,     \* generate_yara_rule: the lines of the text returned
    ypc            \* generate_yara_rule: its position

analysis_vars ==
    << caller, args, disk, filename, data, risky_items, pc, results,
       _risky_items, _data, raw, exc, parser, calls, run, first, exit_status,
       rules >>

yara_vars == << name, description, strings, safe_strings, rule_text, ypc >>

vars == << analysis_vars, yara_vars >>

\* Python values that may be None carry their type.
None == [type |-> "NoneType", value |-> << >>]
Bytes(v) == [type |-> "bytes", value |-> v]
Text(v) == [type |-> "str", value |-> v]

\* The truth value of an argument: None and empty values are false.
Truthy(x) == x.type # "NoneType" /\ Len(x.value) > 0

\* Two empty sets and an empty list.
EmptyResults ==
    [loose_strings |-> {}, strict_strings |-> {}, observations |-> << >>]

\* Results that live on the class: a new object finds what the last one left.
SharedResults(old) == old

\* self.results as __init__ creates it, whatever an earlier object holds.
NewResults(old) == EmptyResults

NoParser == [bound |-> FALSE, results |-> EmptyResults]
NoOutcome == [exc |-> "none", parser |-> NoParser]

\* The path the console program is given.
DocPath == Text(Str(<< "d", "o", "c", ".", "r", "t", "f" >>))

\* The values passed as data by a caller of the library: nothing, a byte
\* string, or a text string (the empty one, and DOC_AS_STRING of the tests).
ApiData ==
    {None} \cup {Bytes(d) : d \in Docs} \cup {Text(<< >>), Text(H_RTF1)}

AnalysisIdle ==
    /\ pc = "idle"
    /\ caller = "none"
    /\ args = [rtf_file |-> None, exclude_risky |-> FALSE]
    /\ disk = [exists |-> FALSE, content |-> << >>]
    /\ filename = None /\ data = None /\ risky_items = TRUE
    /\ results = EmptyResults
    /\ _risky_items = TRUE /\ _data = << >> /\ raw = << >>
    /\ exc = "none" /\ parser = NoParser /\ calls = << >>
    /\ run = 1 /\ first = NoOutcome
    /\ exit_status = "none" /\ rules = << >>

YaraIdle ==
    /\ ypc = "idle"
    /\ name = << >> /\ description = << >>
    /\ strings = << >> /\ safe_strings = << >> /\ rule_text = << >>

\* A caller of the library constructs RtfAnalyser(data=..., risky_items=...),
\* or the console program starts on a file.
Init ==
    /\ YaraIdle
    /\ results = EmptyResults
    /\ _risky_items = TRUE /\ _data = << >> /\ raw = << >>
    /\ exc = "none" /\ parser = NoParser /\ calls = << >>
    /\ run = 1 /\ first = NoOutcome
    /\ exit_status = "none" /\ rules = << >>
    /\ \/ /\ caller = "api"
          /\ pc = "__init__"
          /\ args = [rtf_file |-> None, exclude_risky |-> FALSE]
          /\ disk = [exists |-> FALSE, content |-> << >>]
          /\ filename = None
          /\ data \in ApiData
          /\ risky_items \in BOOLEAN
       \/ /\ caller = "main"
          /\ pc = "main"
          /\ args \in [rtf_file : {DocPath}, exclude_risky : BOOLEAN]
          /\ disk \in {[exists |-> FALSE, content |-> << >>]}
                        \cup {[exists |-> TRUE, content |-> d] : d \in Files}
          /\ filename = None /\ data = None /\ risky_items = TRUE

(***************************************************************************)
(* RtfAnalyser.                                                            *)
(***************************************************************************)

\* raise: the exception leaves the constructor, the caller gets no object.
Raise(e) == pc' = "raised" /\ exc' = e

\* __init__: the fresh results, the flag, and the dispatch on the arguments.
Construct ==
    /\ pc = "__init__"
    /\ results' = NewResults(results)
    /\ _risky_items' = risky_items
    /\ calls' = Append(calls, "__init__")
    /\ IF filename = None /\ data = None
       THEN Raise("ValueError") /\ raw' = raw
       ELSE IF Truthy(filename)
       THEN pc' = "_parse_file" /\ exc' = exc /\ raw' = raw
       ELSE IF Truthy(data)
       THEN IF data.type # "bytes"
            THEN Raise("TypeError") /\ raw' = raw
            ELSE pc' = "_parse_data" /\ exc' = exc /\ raw' = data.value
       ELSE pc' = "return" /\ exc' = exc /\ raw' = raw
    /\ UNCHANGED << caller, args, disk, filename, data, risky_items, _data,
                    parser, run, first, exit_status, rules, yara_vars >>

\* _parse_file: read the whole file in binary mode and parse the bytes.
ParseFile ==
    /\ pc = "_parse_file"
    /\ calls' = Append(calls, "_parse_file")
    /\ IF disk.exists
       THEN pc' = "_parse_data" /\ raw' = disk.content /\ exc' = exc
       ELSE Raise("FileNotFoundError") /\ raw' = raw
    /\ UNCHANGED << caller, args, disk, filename, data, risky_items, results,
                    _risky_items, _data, parser, run, first, exit_status,
                    rules, yara_vars >>

\* _parse_data, up to the first extractor: the printable check on the bytes,
\* the decoding, the magic and the version marker.
ParseData ==
    /\ pc = "_parse_data"
    /\ calls' = Append(calls, "_parse_data")
    /\ _data' = decode(raw)
    /\ IF BadMagic(_data')
       THEN /\ Raise("ParsingException")
            /\ results' = CheckPrintable(results, raw)
       ELSE /\ pc' = "_find_rsid_tags" /\ exc' = exc
            /\ results' = CheckVersion(CheckPrintable(results, raw), _data')
    /\ UNCHANGED << caller, args, disk, filename, data, risky_items,
                    _risky_items, raw, parser, run, first, exit_status, rules,
                    yara_vars >>

FindRsidTags ==
    /\ pc = "_find_rsid_tags"
    /\ calls' = Append(calls, "_find_rsid_tags")
    /\ results' = _find_rsid_tags(results, _data)
    /\ pc' = "_find_blip_tags"
    /\ UNCHANGED << caller, args, disk, filename, data, risky_items,
                    _risky_items, _data, raw, exc, parser, run, first,
                    exit_status, rules, yara_vars >>

FindBlipTags ==
    /\ pc = "_find_blip_tags"
    /\ calls' = Append(calls, "_find_blip_tags")
    /\ results' = _find_blip_tags(results, _data)
    /\ pc' = "_find_image_sizes"
    /\ UNCHANGED << caller, args, disk, filename, data, risky_items,
                    _risky_items, _data, raw, exc, parser, run, first,
                    exit_status, rules, yara_vars >>

FindImageSizes ==
    /\ pc = "_find_image_sizes"
    /\ calls' = Append(calls, "_find_image_sizes")
    /\ results' = _find_image_sizes(results, _data)
    /\ pc' = AfterImageSizes(_risky_items)
    /\ UNCHANGED << caller, args, disk, filename, data, risky_items,
                    _risky_items, _data, raw, exc, parser, run, first,
                    exit_status, rules, yara_vars >>

FindInformationGroup ==
    /\ pc = "_find_information_group"
    /\ calls' = Append(calls, "_find_information_group")
    /\ results' = _find_information_group(results, _data)
    /\ pc' = "return"
    /\ UNCHANGED << caller, args, disk, filename, data, risky_items,
                    _risky_items, _data, raw, exc, parser, run, first,
                    exit_status, rules, yara_vars >>

\* The constructor returns: the caller holds the object and its results.
Return ==
    /\ pc = "return"
    /\ parser' = [bound |-> TRUE, results |-> results]
    /\ pc' = "done"
    /\ UNCHANGED << caller, args, disk, filename, data, risky_items, results,
                    _risky_items, _data, raw, exc, calls, run, first,
                    exit_status, rules, yara_vars >>

\* The caller of the library constructs a second RtfAnalyser from the same
\* arguments, after the first constructor has returned or raised.
SecondObject ==
    /\ caller = "api"
    /\ pc \in {"done", "raised"}
    /\ run = 1
    /\ run' = 2
    /\ first' = [exc |-> exc, parser |-> parser]
    /\ pc' = "__init__"
    /\ exc' = "none"
    /\ parser' = NoParser
    /\ calls' = << >>
    /\ UNCHANGED << caller, args, disk, filename, data, risky_items, results,
                    _risky_items, _data, raw, exit_status, rules, yara_vars >>

(***************************************************************************)
(* The console program.                                                    *)
(***************************************************************************)

\* The keyword arguments main passes to RtfAnalyser.
MainRiskyItems(a) == TRUE

\* main, up to the constructor call: RtfAnalyser(filename=args.rtf_file).
Main ==
    /\ pc = "main"
    /\ filename' = args.rtf_file
    /\ data' = None
    /\ risky_items' = MainRiskyItems(args)
    /\ pc' = "__init__"
    /\ UNCHANGED << caller, args, disk, results, _risky_items, _data, raw, exc,
                    parser, calls, run, first, exit_status, rules, yara_vars >>

\* except FileNotFoundError: log and sys.exit(-1).  Any other exception is
\* not caught and ends the program with its traceback.
MainFileNotFound ==
    /\ caller = "main"
    /\ pc = "raised"
    /\ exc = "FileNotFoundError"
    /\ exit_status' = "-1"
    /\ pc' = "exit"
    /\ UNCHANGED << caller, args, disk, filename, data, risky_items, results,
                    _risky_items, _data, raw, exc, parser, calls, run, first,
                    rules, yara_vars >>

\* main after the constructor: one rule for each string set that is not
\* empty (the text of a rule is generate_yara_rule's, below).
MainReport ==
    /\ caller = "main"
    /\ pc = "done"
    /\ rules' = (IF parser.results.loose_strings # {}
                 THEN << "loose_rule" >> ELSE << >>)
                \o (IF parser.results.strict_strings # {}
                    THEN << "strict_rule" >> ELSE << >>)
    /\ pc' = "exit"
    /\ UNCHANGED << caller, args, disk, filename, data, risky_items, results,
                    _risky_items, _data, raw, exc, parser, calls, run, first,
                    exit_status, yara_vars >>

Next ==
    \/ Construct
    \/ ParseFile
    \/ ParseData
    \/ FindRsidTags
    \/ FindBlipTags
    \/ FindImageSizes
    \/ FindInformationGroup
    \/ Return
    \/ SecondObject
    \/ Main
    \/ MainFileNotFound
    \/ MainReport

Spec == Init /\ [][Next]_vars

(***************************************************************************)
(* generate_yara_rule.                                                     *)
(***************************************************************************)

\* str.replace(old, new) for a one-character old.
RECURSIVE replace(_, _, _)
replace(s, old, new) ==
    IF s = << >> THEN << >>
    ELSE (IF Head(s) = old THEN new ELSE << Head(s) >>) \o replace(Tail(s), old, new)

\* The two replacements in the other order: the backslash put before a
\* double quote is doubled as well.
safe_string_quotes_first(string) ==
    replace(replace(string, 34, << 92, 34 >>), 92, << 92, 92 >>)

\* The body of the loop: backslashes are doubled, then each double quote
\* gets a backslash.
safe_string(string) ==
    replace(replace(string, 92, << 92, 92 >>), 34, << 92, 34 >>)

\* VERSION_STRING
VERSION_STRING == Str(<< "0", ".", "1", ".", "0" >>)

\* RULE_TEMPLATE, cut at its expressions and at the loop.  The text before
\* the for tag ends with the indentation of the tag; "-%}" removes the line
\* break and indentation after it, so that one pass of the loop emits the
\* entry, a line break and the indentation of the endfor tag.
TemplateRule ==
    << 10 >>
    \o Str(<< "r", "u", "l", "e", " " >>)
TemplateDescription ==
    Str(<< " ", "{" >>)
    \o << 10 >>
    \o Str(<< " ", " ", "m", "e", "t", "a", ":" >>)
    \o << 10 >>
    \o Str(<< " ", " ", " ", " ", "d", "e", "s", "c", "r", "i", "p", "t", "i",
           "o", "n", " ", "=", " ", "\"" >>)
TemplateVersion ==
    Str(<< "\"" >>)
    \o << 10 >>
    \o Str(<< " ", " ", " ", " ", "g", "e", "n", "e", "r", "a", "t", "e", "d",
           "_", "b", "y", " ", "=", " ", "\"", "r", "t", "f", "s", "i",
           "g", " ", "v", "e", "r", "s", "i", "o", "n", " " >>)
TemplateStrings ==
    Str(<< "\"" >>)
    \o << 10 >>
    \o << 10 >>
    \o Str(<< " ", " ", "s", "t", "r", "i", "n", "g", "s", ":" >>)
    \o << 10 >>
    \o Str(<< " ", " ", " ", " " >>)
TemplateEntry ==
    Str(<< "$", " ", "=", " ", "\"" >>)
TemplateEntryEnd ==
    Str(<< "\"", " ", "a", "s", "c", "i", "i" >>)
    \o << 10 >>
    \o Str(<< " ", " ", " ", " " >>)
\* Template() drops the last line break of the text.
TemplateCondition ==
    << 10 >>
    \o Str(<< " ", " ", "c", "o", "n", "d", "i", "t", "i", "o", "n", ":" >>)
    \o << 10 >>
    \o Str(<< " ", " ", " ", " ", "u", "i", "n", "t", "3", "2", "b", "e", "(",
           "0", ")", " ", "=", "=", " ", "0", "x", "7", "b", "5", "c", "7",
           "2", "7", "4", " ", "a", "n", "d", " ", "a", "n", "y", " ", "o",
           "f", " ", "t", "h", "e", "m" >>)
    \o << 10 >>
    \o Str(<< "}" >>)
    \o << 10 >>

\* The for loop of the template over strings[k..].
RECURSIVE RenderEntries(_, _)
RenderEntries(ss, k) ==
    IF k > Len(ss) THEN << >>
    ELSE TemplateEntry \o ss[k] \o TemplateEntryEnd \o RenderEntries(ss, k + 1)

\* template.render(args)
render(rule_name, desc, ss) ==
    TemplateRule \o rule_name \o TemplateDescription \o desc
    \o TemplateVersion \o VERSION_STRING \o TemplateStrings
    \o RenderEntries(ss, 1) \o TemplateCondition

\* The longest string and the longest list of strings given to the generator.
MaxStrLen == 2
MaxStrings == 2

\* The characters of the strings: backslash, double quote, "a".
YaraChars == {92, 34, 97}

YaraStrings == UNION {[1..n -> YaraChars] : n \in 0..MaxStrLen}

YaraLists == UNION {[1..n -> YaraStrings] : n \in 0..MaxStrings}

\* generate_yara_rule is called with a name, a description and the strings.
InitYara ==
    /\ AnalysisIdle
    /\ ypc = "loop"
    /\ name = Str(<< "t", "e", "s", "t", "_", "r", "u", "l", "e" >>)
    /\ description = Str(<< "R", "T", "F" >>)
    /\ strings \in YaraLists
    /\ safe_strings = << >>
    /\ rule_text = << >>

\* One pass of `for string in strings`.
YaraEscape ==
    /\ ypc = "loop"
    /\ Len(safe_strings) < Len(strings)
    /\ safe_strings' = Append(safe_strings, safe_string(strings[Len(safe_strings) + 1]))
    /\ UNCHANGED << analysis_vars, name, description, strings, rule_text, ypc >>

\* After the loop: the template is rendered and its text returned.
YaraRender ==
    /\ ypc = "loop"
    /\ Len(safe_strings) = Len(strings)
    /\ rule_text' = render(name, description, safe_strings)
    /\ ypc' = "done"
    /\ UNCHANGED << analysis_vars, name, description, strings, safe_strings >>

NextYara == YaraEscape \/ YaraRender

SpecYara == InitYara /\ [][NextYara]_vars

(***************************************************************************)
(* Properties.                                                             *)
(***************************************************************************)

\* The bytes under analysis and their decoded text, from the inputs alone.
InputBytes == IF caller = "main" THEN disk.content ELSE data.value
InputText == SelectSeq(InputBytes, LAMBDA b : b <= 127)

Extractors ==
    {"_find_rsid_tags", "_find_blip_tags", "_find_image_sizes",
     "_find_information_group"}

\* The constructor has entered method m.
Ran(m) == \E k \in 1..Len(calls) : calls[k] = m

\* The constructor has ended, by returning or by raising.
Ended == pc \in {"done", "raised", "exit"}

\* The number of times id occurs in a sequence of observations.
Count(obs, id) == Cardinality({k \in 1..Len(obs) : obs[k] = id})

StartsWithMagic(t) == Len(t) >= 4 /\ SubSeq(t, 1, 4) = Magic

\* C1: for every byte string passed as data (the empty one included) whose
\* decoded text does not start with {\rt, the constructor ends with
\* ParsingException, no extractor runs and the caller gets no result.
C1_BadMagicRaises ==
    (caller = "api" /\ data.type = "bytes" /\ ~StartsWithMagic(InputText))
        => /\ \A m \in Extractors : ~Ran(m)
           /\ ~parser.bound
           /\ Ended => exc = "ParsingException"

\* C2: every value passed as data that is not a byte string, whatever its
\* content (the empty text string included), ends the constructor with
\* TypeError; passing neither filename nor data ends it with ValueError; in
\* neither case does an analysis step run.
C2_NonBytesRaisesTypeError ==
    (caller = "api" /\ filename = None /\ data.type # "bytes")
        => /\ \A m \in Extractors \cup {"_parse_data", "_parse_file"} : ~Ran(m)
           /\ Ended => exc = (IF data = None THEN "ValueError" ELSE "TypeError")

\* The input is a byte string that reaches _parse_data.
BytesInput ==
    \/ caller = "api" /\ data.type = "bytes" /\ data.value # << >>
    \/ caller = "main" /\ disk.exists

\* The revision table declaration read off the text: the control word at p,
\* one whitespace character, a payload without } that is not empty, and the
\* closing brace at r.
TableAt(t, p, r) ==
    LET q == p + Len(RsidTblWord)
    IN  /\ LitAt(t, p, RsidTblWord)
        /\ q <= Len(t) /\ t[q] \in IsSpace
        /\ q + 1 < r /\ r <= Len(t) /\ t[r] = 125
        /\ \A k \in (q + 1)..(r - 1) : t[k] # 125

\* The positions where a declaration starts.
TableStarts(t) ==
    {p \in {a \in 1..Len(t) : LitAt(t, a, RsidTblWord)} :
        \E r \in p..Len(t) : TableAt(t, p, r)}

HasTable(t) == TableStarts(t) # {}

\* The payload of the first declaration.
TablePayload(t) ==
    LET ps == TableStarts(t)
        p == CHOOSE a \in ps : \A b \in ps : a <= b
        r == CHOOSE b \in p..Len(t) : TableAt(t, p, b)
    IN  SubSeq(t, p + Len(RsidTblWord) + 1, r - 1)

\* The digit strings that follow the control word \word in t.
IdsAfter(t, word) ==
    {SubSeq(t, a, SpanEnd(t, a, IsDigit) - 1) :
        a \in {b \in 1..Len(t) :
                 t[b] \in IsDigit /\ LitAt(t, b - Len(word) - 1, << 92 >> \o word)}}

\* The ids the revision table declares (none without a table), and the ids
\* the change markers of the document carry.
DeclaredIds(t) == IF HasTable(t) THEN IdsAfter(TablePayload(t), RsidWord) ELSE {}
MarkerIds(t) == UNION {IdsAfter(t, change_markers[m]) : m \in 1..Len(change_markers)}

\* C3: after a successful analysis, a document whose change markers all
\* carry ids of the revision table has no OBS003, and a document with a
\* revision table and a change marker whose id the table lacks has OBS003 at
\* least once.
C3_Obs003IffMarkerNotInTable ==
    (pc = "done" /\ Ran("_find_rsid_tags"))
        => LET t == InputText
               absent == MarkerIds(t) \ DeclaredIds(t)
               n == Count(parser.results.observations, "OBS003")
           IN  /\ absent = {} => n = 0
               /\ (HasTable(t) /\ absent # {}) => n >= 1

C3_Witness ==
    /\ pc = "done" /\ Ran("_find_rsid_tags")
    /\ HasTable(InputText)
    /\ MarkerIds(InputText) \ DeclaredIds(InputText) # {}
    /\ Count(parser.results.observations, "OBS003") >= 1

\* C4: for every input that passes the magic check, OBS001 is among the
\* observations exactly once if some input byte is outside string.printable,
\* and not at all otherwise, however many such bytes there are and wherever
\* they are.
C4_Obs001ExactlyOnce ==
    (BytesInput /\ Ran("_parse_data") /\ StartsWithMagic(InputText))
        => Count(results.observations, "OBS001")
             = (IF \E k \in 1..Len(InputBytes) : InputBytes[k] \notin printable
                THEN 1 ELSE 0)

C4_Witness ==
    /\ pc = "done" /\ BytesInput /\ StartsWithMagic(InputText)
    /\ Cardinality({k \in 1..Len(InputBytes) : InputBytes[k] \notin printable}) >= 2
    /\ Count(parser.results.observations, "OBS001") = 1

\* The fifth and sixth characters of the text are "f1".
VersionIsF1(t) == Len(t) >= 6 /\ t[5] = 102 /\ t[6] = 49

\* C5: for every input whose text starts with {\rt and does not go on with
\* f1 (texts of fewer than 6 characters included), the analysis is not
\* aborted, and once the constructor has returned OBS002 is among the
\* observations, every enabled extractor has run and the caller holds the
\* result.
C5_Obs002WithoutAbort ==
    (BytesInput /\ StartsWithMagic(InputText) /\ ~VersionIsF1(InputText))
        => /\ pc # "raised"
           /\ pc = "done" =>
                /\ parser.bound
                /\ Count(parser.results.observations, "OBS002") >= 1
                /\ Ran("_find_rsid_tags") /\ Ran("_find_blip_tags")
                /\ Ran("_find_image_sizes")
                /\ risky_items => Ran("_find_information_group")

C5_Witness ==
    /\ pc = "done" /\ BytesInput
    /\ StartsWithMagic(InputText) /\ Len(InputText) = 5
    /\ Count(parser.results.observations, "OBS002") = 1
    /\ Ran("_find_image_sizes")

\* One image size tag read off the text at p: the control word, digits and
\* whitespace; the position after it, 0 if there is no tag at p.
SizeTagEnd(t, p) ==
    LET ws == {k \in IF t[p] = 92 THEN 1..Len(image_tags) ELSE {} :
                 /\ LitAt(t, p, << 92 >> \o image_tags[k])
                 /\ p + Len(image_tags[k]) + 1 <= Len(t)
                 /\ t[p + Len(image_tags[k]) + 1] \in IsDigit}
    IN  IF ws = {} THEN 0
        ELSE LET k == CHOOSE w \in ws : TRUE
             IN  SpanEnd(t, SpanEnd(t, p + Len(image_tags[k]) + 1, IsDigit), IsSpace)

SizeTagStarts(t) == {p \in 1..Len(t) : SizeTagEnd(t, p) # 0}

\* A maximal run starts at a tag that is not the end of a tag, and ends at
\* the first tag end after it where no tag starts.
SizeRunStarts(t) ==
    LET starts == SizeTagStarts(t)
        ends == {SizeTagEnd(t, o) : o \in starts}
    IN  starts \ ends

SizeRunEnd(t, p) ==
    LET ends == {SizeTagEnd(t, o) : o \in {a \in SizeTagStarts(t) : a >= p}}
        stops == ends \ SizeTagStarts(t)
    IN  CHOOSE e \in stops : \A o \in stops : e <= o

\* The number of tags of the run that starts at p.
SizeRunTags(t, p) ==
    Cardinality({o \in SizeTagStarts(t) : p <= o /\ o < SizeRunEnd(t, p)})

\* The runs as strings, trailing whitespace trimmed (equal runs once).
SizeRunStrings(t) ==
    LET starts == SizeTagStarts(t)
        ends == {SizeTagEnd(t, o) : o \in starts}
        stops == ends \ starts
        End(p) == CHOOSE e \in stops :
                      e > p /\ \A o \in stops : o > p => e <= o
    IN  {strip(SubSeq(t, p, End(p) - 1)) : p \in starts \ ends}

\* C6: the image size extractor adds to the loose strings exactly the
\* maximal runs of adjacent size tags, one entry spanning each run and never
\* one entry per tag, leaves the strict strings alone, and adds OBS004 once
\* if there is a run and not at all otherwise.
C6_OneEntryPerRun ==
    [][FindImageSizes =>
        LET runs == SizeRunStrings(InputText)
        IN  /\ results'.loose_strings = results.loose_strings \cup runs
            /\ results'.strict_strings = results.strict_strings
            /\ results'.observations
                 = results.observations
                   \o (IF runs = {} THEN << >> ELSE << "OBS004" >>)
      ]_vars

C6_Witness ==
    /\ Ran("_find_image_sizes")
    /\ Cardinality(SizeRunStarts(InputText)) >= 2
    /\ \E p \in SizeRunStarts(InputText) : SizeRunTags(InputText, p) >= 4
    /\ SizeRunStrings(InputText) \subseteq results.loose_strings
    /\ Count(results.observations, "OBS004") = 1

\* The information groups of the text.
InfoGroups(t) ==
    {SubSeq(t, p, InfoGroupAt(t, p) - 1) :
        p \in {a \in 1..Len(t) : InfoGroupAt(t, a) # 0}}

\* C7: when the console program is run with the exclude-risky option, the
\* information group extractor does not run: no OBS005 and no information
\* group among the loose strings, whatever the document holds.
C7_ExcludeRiskySkipsInfoGroup ==
    (caller = "main" /\ args.exclude_risky)
        => /\ ~Ran("_find_information_group")
           /\ Count(results.observations, "OBS005") = 0
           /\ results.loose_strings \cap InfoGroups(InputText) = {}

\* C8: two RtfAnalyser objects built one after the other from the same
\* bytes and the same risky_items end alike: the same exception, or the same
\* loose strings, strict strings and sequence of observations.
C8_SecondObjectSameOutcome ==
    (run = 2 /\ pc \in {"done", "raised"})
        => first = [exc |-> exc, parser |-> parser]

C8_Witness ==
    /\ run = 2 /\ pc = "done"
    /\ first.parser.bound
    /\ parser.results.observations # << >>
    /\ parser.results.loose_strings # {}
    /\ parser.results.strict_strings # {}

\* A string the revision extractor would add: \rsid or a change marker
\* word, followed by digits only.
IsRsidString(s) ==
    \E w \in {<< 92 >> \o RsidWord} \cup {change_markers[m] : m \in 1..Len(change_markers)} :
        /\ Len(s) > Len(w)
        /\ SubSeq(s, 1, Len(w)) = w
        /\ \A k \in (Len(w) + 1)..Len(s) : s[k] \in IsDigit

\* C10: without a revision table declaration in the text the revision
\* extractor leaves the results as they are, also when change markers occur:
\* no OBS007, no OBS003, no rsid or change marker string in either set; the
\* other extractors still run.
C10_NoTableNoRsidFindings ==
    /\ [][(FindRsidTags /\ ~HasTable(InputText)) => results' = results]_vars
    /\ []((pc = "done" /\ BytesInput /\ ~HasTable(InputText))
            => /\ Count(parser.results.observations, "OBS007") = 0
               /\ Count(parser.results.observations, "OBS003") = 0
               /\ \A s \in parser.results.loose_strings
                            \cup parser.results.strict_strings : ~IsRsidString(s)
               /\ Ran("_find_blip_tags") /\ Ran("_find_image_sizes")
               /\ risky_items => Ran("_find_information_group"))

C10_Witness ==
    /\ pc = "done" /\ Ran("_find_rsid_tags")
    /\ ~HasTable(InputText)
    /\ Contains(InputText, RsidTblWord)
    /\ MarkerIds(InputText) # {}

\* The lines of a text (the pieces between line feeds).
RECURSIVE SplitLines(_)
SplitLines(s) ==
    LET nl == {k \in 1..Len(s) : s[k] = 10}
    IN  IF nl = {} THEN << s >>
        ELSE LET k == CHOOSE a \in nl : \A b \in nl : a <= b
             IN  << SubSeq(s, 1, k - 1) >> \o SplitLines(SubSeq(s, k + 1, Len(s)))

\* A string entry of a rule starts with the indentation and $ = ".
EntryStart == Str(<< " ", " ", " ", " ", "$", " ", "=", " ", "\"" >>)
EntryEnd == Str(<< "\"", " ", "a", "s", "c", "i", "i" >>)

EntryLines(text) ==
    SelectSeq(SplitLines(text), LAMBDA l : LitAt(l, 1, EntryStart))

\* Reading a string literal from position p, as a rule parser does: a
\* backslash takes the next character as it is, a double quote that no
\* backslash precedes ends the literal.  <<the string read, the position of
\* the closing double quote (past the end if there is none)>>.
RECURSIVE ReadLiteral(_, _)
ReadLiteral(s, p) ==
    IF p > Len(s) \/ s[p] = 34 THEN << << >>, p >>
    ELSE IF s[p] = 92 /\ p < Len(s)
         THEN LET r == ReadLiteral(s, p + 2) IN << << s[p + 1] >> \o r[1], r[2] >>
         ELSE LET r == ReadLiteral(s, p + 1) IN << << s[p] >> \o r[1], r[2] >>

\* Every backslash doubled and every double quote given a backslash,
\* character by character.
RECURSIVE Escaped(_)
Escaped(s) ==
    IF s = << >> THEN << >>
    ELSE (IF Head(s) = 92 THEN << 92, 92 >>
          ELSE IF Head(s) = 34 THEN << 92, 34 >>
          ELSE << Head(s) >>) \o Escaped(Tail(s))

\* C9: the rule text holds one string entry for each input string, in the
\* order of the input; the literal of an entry is the string with every
\* backslash doubled and every double quote given a backslash, reading it
\* back gives the string, and the first double quote that is not escaped is
\* the one that closes the literal.
C9_OneEscapedEntryPerString ==
    ypc = "done"
        => LET es == EntryLines(rule_text)
           IN  /\ Len(es) = Len(strings)
               /\ \A k \in 1..Len(es) :
                    LET r == ReadLiteral(es[k], Len(EntryStart) + 1)
                    IN  /\ r[1] = strings[k]
                        /\ SubSeq(es[k], Len(EntryStart) + 1, r[2] - 1)
                             = Escaped(strings[k])
                        /\ SubSeq(es[k], r[2], Len(es[k])) = EntryEnd

C9_Witness ==
    /\ ypc = "done"
    /\ Len(strings) = 2
    /\ strings[1] = << 92, 34 >>
    /\ strings[2] = << 34, 92 >>
    /\ Len(EntryLines(rule_text)) = 2

\* The positions of the backslash of a control word \word in t.
WordStarts(t, word) == {p \in 1..Len(t) : LitAt(t, p, << 92 >> \o word)}

\* Where the number of the \bliptag at p starts: after the word and after a
\* minus sign, if there is one.
BliptagNumber(t, p) ==
    LET q == p + Len(BliptagWord) + 1
    IN  IF q <= Len(t) /\ t[q] = 45 THEN q + 1 ELSE q

\* The \bliptag words of the text that are followed by digits, or by a minus
\* sign and digits.
BliptagStarts(t) ==
    {p \in WordStarts(t, BliptagWord) :
        BliptagNumber(t, p) <= Len(t) /\ t[BliptagNumber(t, p)] \in IsDigit}

\* The image identifiers of the text: each such word with its number.
BliptagStrings(t) ==
    {SubSeq(t, p + 1, SpanEnd(t, BliptagNumber(t, p), IsDigit) - 1) :
        p \in BliptagStarts(t)}

\* The \blipuid words of the text that are followed by whitespace and then
\* by lower-case hexadecimal digits: <<backslash, first digit, end>>.
BlipuidGroups(t) ==
    LET n == Len(BlipuidWord)
        Hex(p) == SpanEnd(t, p + n + 1, IsSpace)
        ok == {p \in WordStarts(t, BlipuidWord) :
                 /\ p + n + 1 <= Len(t) /\ t[p + n + 1] \in IsSpace
                 /\ Hex(p) <= Len(t) /\ t[Hex(p)] \in IsHexLower}
    IN  {<< p, Hex(p), SpanEnd(t, Hex(p), IsHexLower) >> : p \in ok}

\* C11: the blip extractor appends OBS006 once if the text has at least one
\* \bliptag with a number and appends nothing otherwise; a \blipuid with a
\* hexadecimal id adds the id to the loose strings and the word with its id
\* to the strict strings and no observation; the words bliptag or blipuid
\* without a match add nothing, and the step never raises.  So OBS006 is in
\* the observations of a finished analysis once or not at all.
C11_Obs006OncePerDocument ==
    /\ [][FindBlipTags =>
            LET t == InputText
                tags == BliptagStrings(t)
                uids == BlipuidGroups(t)
            IN  /\ results'.observations
                     = results.observations
                       \o (IF tags = {} THEN << >> ELSE << "OBS006" >>)
                /\ results'.loose_strings
                     = results.loose_strings \cup tags
                       \cup {SubSeq(t, g[2], g[3] - 1) : g \in uids}
                /\ results'.strict_strings
                     = results.strict_strings
                       \cup {SubSeq(t, g[1] + 1, g[3] - 1) : g \in uids}
                /\ pc' = "_find_image_sizes" /\ exc' = "none"
         ]_vars
    /\ []((pc = "done" /\ Ran("_find_blip_tags"))
            => Count(parser.results.observations, "OBS006")
                 = (IF BliptagStrings(InputText) = {} THEN 0 ELSE 1))

\* Two image identifiers in one analysed document.
C11_Witness ==
    /\ pc = "done" /\ Ran("_find_blip_tags")
    /\ Cardinality(BliptagStarts(InputText)) >= 2
    /\ Count(parser.results.observations, "OBS006") = 1

\* The stage of the analysis that raises an observation, in the order in
\* which _parse_data runs the stages.
Stage(id) ==
    CASE id = "OBS001" -> 1
      [] id = "OBS002" -> 2
      [] id = "OBS007" -> 3
      [] id = "OBS003" -> 4
      [] id = "OBS006" -> 5
      [] id = "OBS004" -> 6
      [] id = "OBS005" -> 7
      [] OTHER -> 0

\* The change marker occurrences of the text whose id the revision table
\* does not declare, as the positions of their first digit.
UndeclaredMarkers(t) ==
    LET declared == DeclaredIds(t)
    IN  {b \in 1..Len(t) :
           /\ t[b] \in IsDigit
           /\ \E m \in 1..Len(change_markers) :
                 LitAt(t, b - Len(change_markers[m]) - 1,
                       << 92 >> \o change_markers[m])
           /\ SubSeq(t, b, SpanEnd(t, b, IsDigit) - 1) \notin declared}

\* s is an initial part of t.
IsPrefix(s, t) == Len(s) <= Len(t) /\ SubSeq(t, 1, Len(s)) = s

\* C12: the observations of a successful analysis are ids of the catalogue
\* in the order OBS001?, OBS002?, (OBS007 OBS003*)?, OBS006?, OBS004?, OBS005?:
\* every id but OBS003 at most once, OBS003 only after an OBS007 and once for
\* each change marker occurrence whose id the table lacks, and no observation
\* of a later stage before one of an earlier stage; while an object is
\* analysed its observations only grow at the end.
C12_ObservationOrder ==
    /\ []((pc = "done")
            => LET obs == parser.results.observations
               IN  /\ \A k \in 1..Len(obs) : obs[k] \in OBSERVATIONS
                   /\ \A id \in OBSERVATIONS \ {"OBS003"} : Count(obs, id) <= 1
                   /\ \A i, j \in 1..Len(obs) :
                         i < j => Stage(obs[i]) <= Stage(obs[j])
                   /\ \A k \in 1..Len(obs) :
                         obs[k] = "OBS003"
                            => \E j \in 1..(k - 1) : obs[j] = "OBS007"
                   /\ Ran("_find_rsid_tags")
                         => Count(obs, "OBS003")
                              = (IF HasTable(InputText)
                                 THEN Cardinality(UndeclaredMarkers(InputText))
                                 ELSE 0))
    /\ [][pc # "__init__"
            => IsPrefix(results.observations, results'.observations)]_vars

\* A revision table and two change markers whose id it lacks: OBS007 once,
\* OBS003 twice.
C12_Witness ==
    /\ pc = "done"
    /\ Count(parser.results.observations, "OBS007") = 1
    /\ Count(parser.results.observations, "OBS003") >= 2
    /\ Cardinality(UndeclaredMarkers(InputText)) >= 2

=============================================================================
